---- MODULE Spec2Model ----
(***************************************************************************)
(* Model of the pain-index backend: the pain score (src/main.py,           *)
(* calculate_pain_score), the provider cascade and asset assembly          *)
(* (get_data_from_providers, with the record shapes built by               *)
(* src/providers.py) and the 15 minute cache of get_leaderboard.           *)
(***************************************************************************)
EXTENDS Integers, Sequences, FiniteSets, TLC

VARIABLES
    cached_data,      \* main.py global: None or the last stored list
    last_cache_time,  \* main.py global: time of the last store
    now,              \* the wall clock read by time.time()
    last_op,          \* "init", "tick", "get" or "score": the step taken last
    response,         \* outcome of the last get_leaderboard call
    invoked,          \* providers called by the last get_leaderboard, in order
    ret1,             \* what scrape_coinmarketcap returned in that call
    ret2,             \* what scrape_coingecko returned in that call
    quote,            \* argument of calculate_pain_score (score specification)
    score,            \* its result, -1 before the call
    primary_fault,    \* how scrape_coinmarketcap failed in the last call, or "none"
    threads,          \* concurrent requests: position and locals of each
    cd_by,            \* the request whose refresh wrote cached_data, 0 at boot
    ts_by             \* the request whose refresh wrote last_cache_time, 0 at boot

vars == <<cached_data, last_cache_time, now, last_op, response, invoked,
          ret1, ret2, quote, score, primary_fault, threads, cd_by, ts_by>>

conc_vars == <<threads, cd_by, ts_by>>

(***************************************************************************)
(* Bounds of the model.                                                    *)
(***************************************************************************)
MaxDrop == 40     \* largest decline, in percent, of a checked quote
MaxGain == 2      \* largest rise, in percent, of a checked quote
MaxBatch == 2     \* most coins in one provider payload
Horizon == 902    \* seconds of wall clock explored after boot
BootTime == 1000000  \* time.time() when the process starts

(***************************************************************************)
(* Python dictionaries: a function whose DOMAIN is the set of keys present.*)
(***************************************************************************)
DictGet(d, k, default) == IF k \in DOMAIN d THEN d[k] ELSE default

(***************************************************************************)
(* IEEE-754 binary64 arithmetic on the non-negative values the score       *)
(* meets.  A value is a 64 bit natural counting units of 2^-55, held as    *)
(* four 16 bit limbs, least significant first; every double in             *)
(* {0} \cup [0.2, 512) is such a multiple.                                 *)
(***************************************************************************)
LimbBase == 256 * 256

Carry(x) ==
    LET t1 == x[1]
        t2 == x[2] + (t1 \div LimbBase)
        t3 == x[3] + (t2 \div LimbBase)
        t4 == x[4] + (t3 \div LimbBase)
    IN  <<t1 % LimbBase, t2 % LimbBase, t3 % LimbBase, t4>>

FAddExact(x, y) == Carry(<<x[1] + y[1], x[2] + y[2], x[3] + y[3], x[4] + y[4]>>)

FMulSmallExact(x, k) == Carry(<<x[1] * k, x[2] * k, x[3] * k, x[4] * k>>)

RECURSIVE BitLenN(_)
BitLenN(n) == IF n = 0 THEN 0 ELSE 1 + BitLenN(n \div 2)

BitLen(x) ==
    IF x[4] > 0 THEN 48 + BitLenN(x[4])
    ELSE IF x[3] > 0 THEN 32 + BitLenN(x[3])
    ELSE IF x[2] > 0 THEN 16 + BitLenN(x[2])
    ELSE BitLenN(x[1])

RECURSIVE Pow2(_)
Pow2(n) == IF n = 0 THEN 1 ELSE 2 * Pow2(n - 1)

\* round to nearest, ties to even, to a 53 bit significand
Round53(x) ==
    LET sh == BitLen(x) - 53 IN
    IF sh <= 0 THEN x
    ELSE LET m    == Pow2(sh)
             rem  == x[1] % m
             half == m \div 2
             odd  == ((x[1] \div m) % 2) = 1
             up   == rem > half \/ (rem = half /\ odd)
         IN  Carry(<<x[1] - rem + (IF up THEN m ELSE 0), x[2], x[3], x[4]>>)

Half(x) ==
    <<(x[1] \div 2) + (x[2] % 2) * (LimbBase \div 2),
      (x[2] \div 2) + (x[3] % 2) * (LimbBase \div 2),
      (x[3] \div 2) + (x[4] % 2) * (LimbBase \div 2),
      x[4] \div 2>>

FZero == <<0, 0, 0, 0>>
FromInt(n) == <<0, 0, 0, n * 128>>
\* int(): truncation of a non-negative double
ToInt(x) == x[4] \div 128

FAdd(x, y) == Round53(FAddExact(x, y))
\* n * w for an integral n >= 0 and a double w
FMulInt(n, w) == Round53(FMulSmallExact(w, n))
\* x * 2.5
FMul2p5(x) == Half(Round53(FMulSmallExact(x, 5)))

\* the doubles nearest to 0.50, 0.30 and 0.20
weight_24h == <<0, 0, 0, 64>>
weight_7d  == <<26214, 26214, 26214, 38>>
weight_30d == <<39322, 39321, 39321, 25>>

(***************************************************************************)
(* calculate_pain_score                                                    *)
(***************************************************************************)
\* the magnitude of every change, rises included
PainOfAnyChange(change) == IF change < 0 THEN -change ELSE change

Pain(change) == IF change < 0 THEN -change ELSE 0

Min(a, b) == IF a < b THEN a ELSE b

\* the score without its upper limit
ClampMissing(raw) == ToInt(raw)

Clamp(raw) == Min(ToInt(raw), 100)

\* the second bonus taken instead of the first, not on top of it
PanicBonusExclusive(pain_24h, raw) ==
    IF pain_24h > 20 THEN FAdd(raw, FromInt(10))
    ELSE IF pain_24h > 10 THEN FAdd(raw, FromInt(15)) ELSE raw

PanicBonus(pain_24h, raw) ==
    LET r1 == IF pain_24h > 10 THEN FAdd(raw, FromInt(15)) ELSE raw
    IN  IF pain_24h > 20 THEN FAdd(r1, FromInt(10)) ELSE r1

calculate_pain_score(q) ==
    LET change_24h == DictGet(q, "percentChange24h", 0)
        change_7d  == DictGet(q, "percentChange7d", 0)
        change_30d == DictGet(q, "percentChange30d", 0)
        pain_24h   == Pain(change_24h)
        pain_7d    == Pain(change_7d)
        pain_30d   == Pain(change_30d)
        raw_score  == FMul2p5(FAdd(FAdd(FMulInt(pain_24h, weight_24h),
                                        FMulInt(pain_7d, weight_7d)),
                                   FMulInt(pain_30d, weight_30d)))
    IN  Clamp(PanicBonus(pain_24h, raw_score))

(***************************************************************************)
(* Python values.  A str is a sequence of one-character strings; None is   *)
(* a value no str equals.                                                  *)
(***************************************************************************)
NoneVal == <<"None">>

LowerChar(c) ==
    CASE c = "A" -> "a" [] c = "B" -> "b" [] c = "C" -> "c" [] c = "D" -> "d"
      [] c = "E" -> "e" [] c = "F" -> "f" [] c = "G" -> "g" [] c = "H" -> "h"
      [] c = "I" -> "i" [] c = "J" -> "j" [] c = "K" -> "k" [] c = "L" -> "l"
      [] c = "M" -> "m" [] c = "N" -> "n" [] c = "O" -> "o" [] c = "P" -> "p"
      [] c = "Q" -> "q" [] c = "R" -> "r" [] c = "S" -> "s" [] c = "T" -> "t"
      [] c = "U" -> "u" [] c = "V" -> "v" [] c = "W" -> "w" [] c = "X" -> "x"
      [] c = "Y" -> "y" [] c = "Z" -> "z"
      [] OTHER -> c

\* str.lower()
Lower(s) == [i \in 1..Len(s) |-> LowerChar(s[i])]

\* the name taken as it is
ReplaceSpaceMissing(s) == s

\* str.replace(' ', '-')
ReplaceSpace(s) == [i \in 1..Len(s) |-> IF s[i] = " " THEN "-" ELSE s[i]]

USD == <<"U", "S", "D">>
EUR == <<"E", "U", "R">>

(***************************************************************************)
(* What the two remote sources can answer.  A payload is a failed request  *)
(* (ok = FALSE: connection error, timeout or error status, all raised as   *)
(* RequestException) or a list of coins / table rows.  The first source    *)
(* can also answer a body that is JSON but not of the expected shape       *)
(* ("data": null, or a list at the top): unreadable.                       *)
(***************************************************************************)
CMCCoins ==
    { [id |-> 1,
       name |-> <<"B", "i", "t", "c", "o", "i", "n", " ", "C", "a", "s", "h">>,
       symbol |-> <<"b", "c", "h">>,
       quotes |-> << [name |-> USD, price |-> 5, percentChange24h |-> -15] >>],
      [id |-> 2, name |-> <<"D", "d">>, symbol |-> <<"D">>,
       quotes |-> << [name |-> EUR, price |-> 6, percentChange24h |-> -1],
                     [name |-> USD, price |-> 7, percentChange24h |-> -25,
                      percentChange7d |-> -4, percentChange30d |-> -10] >>],
      [id |-> 3, name |-> <<"E", "e">>, symbol |-> <<"E">>,
       quotes |-> << [name |-> USD, price |-> 3, percentChange24h |-> -15,
                      percentChange7d |-> 2] >>],
      [id |-> 4, symbol |-> <<"N">>,
       quotes |-> << [name |-> USD, price |-> 2, percentChange24h |-> -30] >>],
      [id |-> 5, name |-> <<>>, symbol |-> <<"Z">>,
       quotes |-> << [name |-> USD, percentChange24h |-> 1] >>],
      [id |-> 6, name |-> <<"G", "g">>,
       quotes |-> << [name |-> USD, price |-> 4, percentChange24h |-> -2] >>],
      [id |-> 7, name |-> <<"H", "h">>, symbol |-> <<"H">>,
       quotes |-> << [name |-> EUR, price |-> 8, percentChange24h |-> -40] >>] }

GeckoRows ==
    { [tags_ok |-> TRUE, name |-> <<"I", "i", " ", "J">>, symbol |-> <<"I", "J">>,
       price |-> 9, ath_change |-> -60, src |-> 1],
      [tags_ok |-> TRUE, name |-> <<"K", "k">>, symbol |-> <<"K">>,
       price |-> 2, ath_change |-> -80, src |-> 2],
      [tags_ok |-> TRUE, name |-> <<>>, symbol |-> <<"Z">>,
       price |-> 1, ath_change |-> -5, src |-> 3],
      [tags_ok |-> FALSE, name |-> <<"N">>, symbol |-> <<"N">>,
       price |-> 1, ath_change |-> -5, src |-> 4] }

SeqsUpTo(S, n) == UNION { [1..k -> S] : k \in 0..n }

UnreadablePayload == [ok |-> TRUE, list |-> <<>>, unreadable |-> TRUE]

CMCPayloads ==
    { [ok |-> FALSE, list |-> <<>>], UnreadablePayload }
    \cup { [ok |-> TRUE, list |-> l] : l \in SeqsUpTo(CMCCoins, MaxBatch) }

GeckoPayloads ==
    { [ok |-> FALSE, list |-> <<>>] }
    \cup { [ok |-> TRUE, list |-> l] : l \in SeqsUpTo(GeckoRows, MaxBatch) }

(***************************************************************************)
(* providers.py                                                            *)
(***************************************************************************)
RECURSIVE HasUSD(_)
HasUSD(quotes) ==
    quotes # <<>> /\ (DictGet(Head(quotes), "name", NoneVal) = USD
                      \/ HasUSD(Tail(quotes)))

RECURSIVE FirstUSD(_)
\* next((q for q in quotes if q.get("name") == "USD"), None), where one exists
FirstUSD(quotes) ==
    IF DictGet(Head(quotes), "name", NoneVal) = USD THEN Head(quotes)
    ELSE FirstUSD(Tail(quotes))

CMCRecord(coin) ==
    [id        |-> DictGet(coin, "id", 0),
     name      |-> DictGet(coin, "name", NoneVal),
     symbol    |-> DictGet(coin, "symbol", NoneVal),
     quote_usd |-> FirstUSD(DictGet(coin, "quotes", <<>>)),
     logo_url  |-> <<"cmc", DictGet(coin, "id", 0)>>]

RECURSIVE CMCRecords(_)
\* the loop over crypto_list: a coin without a USD quote is passed over
CMCRecords(crypto_list) ==
    IF crypto_list = <<>> THEN <<>>
    ELSE LET coin == Head(crypto_list) IN
         IF ~HasUSD(DictGet(coin, "quotes", <<>>))
         THEN CMCRecords(Tail(crypto_list))
         ELSE <<CMCRecord(coin)>> \o CMCRecords(Tail(crypto_list))

\* data.get("data", {}).get(...) on a body of another shape raises
\* AttributeError, which the except clause (RequestException) lets through
ScrapeRaises(payload) == payload.ok /\ DictGet(payload, "unreadable", FALSE)

\* what scrape_coinmarketcap returns when it returns
scrape_coinmarketcap(payload) ==
    IF ~payload.ok THEN <<>> ELSE CMCRecords(payload.list)

\* the failure of the first source, as the provider meets it
PrimaryFault(payload) ==
    IF ~payload.ok THEN "request"
    ELSE IF ScrapeRaises(payload) THEN "payload" ELSE "none"

GeckoRecord(row) ==
    [name             |-> row.name,
     symbol           |-> row.symbol,
     price            |-> row.price,
     percent_from_ath |-> row.ath_change,
     logo_url         |-> <<"gecko", row.src>>]

RECURSIVE GeckoRecords(_)
GeckoRecords(coin_rows) ==
    IF coin_rows = <<>> THEN <<>>
    ELSE IF ~Head(coin_rows).tags_ok THEN GeckoRecords(Tail(coin_rows))
    ELSE <<GeckoRecord(Head(coin_rows))>> \o GeckoRecords(Tail(coin_rows))

scrape_coingecko(payload) ==
    IF ~payload.ok THEN <<>> ELSE GeckoRecords(payload.list)

(***************************************************************************)
(* main.py: get_data_from_providers                                        *)
(***************************************************************************)
\* the loop without its break: every provider is called, the last one wins
ProviderChainNoBreak(p1, p2) ==
    LET r1 == scrape_coinmarketcap(p1)
        r2 == scrape_coingecko(p2)
    IN  [raw_data |-> r2, invoked |-> <<1, 2>>,
         ret1 |-> [called |-> TRUE, val |-> r1],
         ret2 |-> [called |-> TRUE, val |-> r2]]

\* the loop that never takes over the fallback's answer
ProviderChainKeepsFirst(p1, p2) ==
    LET r1 == scrape_coinmarketcap(p1) IN
    IF r1 # <<>>
    THEN [raw_data |-> r1, invoked |-> <<1>>,
          ret1 |-> [called |-> TRUE, val |-> r1],
          ret2 |-> [called |-> FALSE, val |-> <<>>]]
    ELSE [raw_data |-> r1, invoked |-> <<1, 2>>,
          ret1 |-> [called |-> TRUE, val |-> r1],
          ret2 |-> [called |-> TRUE, val |-> scrape_coingecko(p2)]]

\* the loop over provider_functions: p1, p2 are what the two sources answer
ProviderChain(p1, p2) ==
    LET r1 == scrape_coinmarketcap(p1) IN
    IF r1 # <<>>
    THEN [raw_data |-> r1, invoked |-> <<1>>,
          ret1 |-> [called |-> TRUE, val |-> r1],
          ret2 |-> [called |-> FALSE, val |-> <<>>]]
    ELSE LET r2 == scrape_coingecko(p2) IN
         [raw_data |-> r2, invoked |-> <<1, 2>>,
          ret1 |-> [called |-> TRUE, val |-> r1],
          ret2 |-> [called |-> TRUE, val |-> r2]]

\* coin_item['name'].lower() and coin_item['symbol'].lower() raise on None
Raises(coin_item) == coin_item.name = NoneVal \/ coin_item.symbol = NoneVal

Slug(name, symbol) == ReplaceSpace(Lower(name)) \o <<"-">> \o Lower(symbol)

Assemble(coin_item) ==
    LET quote_data == DictGet(coin_item, "quote_usd", <<>>) IN
    [rank             |-> 0,
     id               |-> Slug(coin_item.name, coin_item.symbol),
     name             |-> coin_item.name,
     symbol           |-> coin_item.symbol,
     price            |-> DictGet(quote_data, "price", 0),
     percent_from_ath |-> DictGet(quote_data, "percentChange24h", 0),
     pain_score       |-> calculate_pain_score(quote_data),
     logo_url         |-> coin_item.logo_url]

AssembleAll(raw_data) == [i \in 1..Len(raw_data) |-> Assemble(raw_data[i])]

\* sorted(..., key=pain_score, reverse=True): stable, so an asset goes
\* behind every asset already placed whose score is not smaller
RECURSIVE InsertDescTiesFirst(_, _)
\* an unstable order: an asset goes in front of the assets of equal score
InsertDescTiesFirst(done, a) ==
    IF done = <<>> THEN <<a>>
    ELSE IF Head(done).pain_score > a.pain_score
         THEN <<Head(done)>> \o InsertDescTiesFirst(Tail(done), a)
         ELSE <<a>> \o done

RECURSIVE InsertDesc(_, _)
InsertDesc(done, a) ==
    IF done = <<>> THEN <<a>>
    ELSE IF Head(done).pain_score >= a.pain_score
         THEN <<Head(done)>> \o InsertDesc(Tail(done), a)
         ELSE <<a>> \o done

RECURSIVE SortedDesc(_)
SortedDesc(assets_list) ==
    IF assets_list = <<>> THEN <<>>
    ELSE InsertDesc(SortedDesc(SubSeq(assets_list, 1, Len(assets_list) - 1)),
                    assets_list[Len(assets_list)])

AssignRanks(sorted_assets) ==
    [i \in 1..Len(sorted_assets) |-> [sorted_assets[i] EXCEPT !.rank = i]]

\* the part of get_data_from_providers after the provider loop
ProcessBatch(raw_data) ==
    IF raw_data = <<>> THEN [status |-> "ok", list |-> <<>>]
    ELSE IF \E i \in 1..Len(raw_data) : Raises(raw_data[i])
         THEN [status |-> "error", list |-> <<>>]
         ELSE [status |-> "ok",
               list |-> AssignRanks(SortedDesc(AssembleAll(raw_data)))]

(***************************************************************************)
(* main.py: get_leaderboard, with the cache                                *)
(***************************************************************************)
CACHE_DURATION_SECONDS == 60 * 15

\* `not cached_data`: true of None and of the empty list
Falsy(cd) == cd.isNone \/ cd.val = <<>>

NeedsRefresh(cd, lct, current_time) ==
    Falsy(cd) \/ (current_time - lct) > CACHE_DURATION_SECONDS

NotCalled == [called |-> FALSE, val |-> <<>>]

\* get_data_from_providers on the answers p1, p2 of the two sources
get_data_from_providers(p1, p2) ==
    IF ScrapeRaises(p1)
    THEN [invoked |-> <<1>>, ret1 |-> [called |-> TRUE, val |-> <<>>],
          ret2 |-> NotCalled, status |-> "error", list |-> <<>>,
          fault |-> PrimaryFault(p1)]
    ELSE LET chain == ProviderChain(p1, p2)
             res   == ProcessBatch(chain.raw_data)
         IN  [invoked |-> chain.invoked, ret1 |-> chain.ret1,
              ret2 |-> chain.ret2, status |-> res.status, list |-> res.list,
              fault |-> PrimaryFault(p1)]

NoSource == [ok |-> FALSE, list |-> <<>>]

\* every way a call of get_data_from_providers can go; the second source
\* answers only when it is asked
RefreshOutcomes ==
    { get_data_from_providers(p1, NoSource) :
        p1 \in { p \in CMCPayloads : scrape_coinmarketcap(p) # <<>> } }
    \cup { get_data_from_providers(p[1], p[2]) :
        p \in { q \in CMCPayloads : scrape_coinmarketcap(q) = <<>> }
              \X GeckoPayloads }

\* a store that stamps the cache before it knows the refresh succeeded
StoreResultStampsFirst(o) ==
    /\ last_cache_time' = now
    /\ IF o.status = "ok"
       THEN /\ cached_data' = [isNone |-> FALSE, val |-> o.list]
            /\ response' = [status |-> "ok", body |-> o.list]
       ELSE /\ UNCHANGED cached_data
            /\ response' = [status |-> "error", body |-> <<>>]

StoreResult(o) ==
    IF o.status = "ok"
    THEN /\ cached_data' = [isNone |-> FALSE, val |-> o.list]
         /\ last_cache_time' = now
         /\ response' = [status |-> "ok", body |-> o.list]
    ELSE /\ UNCHANGED <<cached_data, last_cache_time>>
         /\ response' = [status |-> "error", body |-> <<>>]

GetRefresh ==
    /\ NeedsRefresh(cached_data, last_cache_time, now)
    /\ \E o \in RefreshOutcomes :
          /\ invoked' = o.invoked
          /\ ret1' = o.ret1
          /\ ret2' = o.ret2
          /\ primary_fault' = o.fault
          /\ StoreResult(o)
    /\ last_op' = "get"
    /\ UNCHANGED <<now, quote, score>>
    /\ UNCHANGED conc_vars

GetCached ==
    /\ ~NeedsRefresh(cached_data, last_cache_time, now)
    /\ response' = [status |-> "ok", body |-> cached_data.val]
    /\ invoked' = <<>>
    /\ ret1' = NotCalled
    /\ ret2' = NotCalled
    /\ primary_fault' = "none"
    /\ last_op' = "get"
    /\ UNCHANGED <<cached_data, last_cache_time, now, quote, score>>
    /\ UNCHANGED conc_vars

get_leaderboard == GetRefresh \/ GetCached

\* time passing between requests
Tick ==
    /\ \E d \in {CACHE_DURATION_SECONDS \div 2, CACHE_DURATION_SECONDS \div 2 + 1} :
          /\ now + d <= BootTime + Horizon
          /\ now' = now + d
    /\ last_op' = "tick"
    /\ UNCHANGED <<cached_data, last_cache_time, response, invoked, ret1, ret2,
                   quote, score, primary_fault>>
    /\ UNCHANGED conc_vars

NoQuote == [k \in {} |-> 0]

(***************************************************************************)
(* Requests served at the same time: FastAPI runs a plain `def` endpoint   *)
(* in a thread pool, so calls of get_leaderboard interleave statement by   *)
(* statement on the two globals.                                           *)
(***************************************************************************)
Threads == {1, 2}

IdleThread ==
    [pc |-> "idle", current_time |-> 0, result |-> <<>>,
     seen_cd |-> -1, seen_ts |-> -1,
     returned |-> [status |-> "none", body |-> <<>>]]

ConcInit ==
    /\ threads = [t \in Threads |-> IdleThread]
    /\ cd_by = 0
    /\ ts_by = 0

Init ==
    /\ cached_data = [isNone |-> TRUE, val |-> <<>>]
    /\ last_cache_time = 0
    /\ now = BootTime
    /\ last_op = "init"
    /\ response = [status |-> "none", body |-> <<>>]
    /\ invoked = <<>>
    /\ ret1 = NotCalled
    /\ ret2 = NotCalled
    /\ quote = NoQuote
    /\ score = -1
    /\ primary_fault = "none"
    /\ ConcInit

Next == get_leaderboard \/ Tick

Spec == Init /\ [][Next]_vars

(***************************************************************************)
(* get_leaderboard statement by statement, one call per thread.  Neither   *)
(* global is guarded by a lock, so a thread switch can fall between any    *)
(* two of the steps below.  cd_by and ts_by name the thread whose refresh  *)
(* wrote the stored list and the stored timestamp (0: nobody yet).         *)
(***************************************************************************)
\* what a refresh can hand back, kept to lists of at most one asset
ConcResults ==
    { [status |-> o.status, list |-> o.list] :
        o \in { x \in RefreshOutcomes : Len(x.list) <= 1 } }

ThreadSharedUnchanged ==
    UNCHANGED <<now, last_op, response, invoked, ret1, ret2, quote, score,
                primary_fault>>

\* line 134: current_time = time.time()
Start ==
    \E t \in Threads :
       /\ threads[t].pc = "idle"
       /\ threads' = [threads EXCEPT ![t].pc = "test_cd",
                                     ![t].current_time = now]
       /\ UNCHANGED <<cached_data, last_cache_time, cd_by, ts_by>>
       /\ ThreadSharedUnchanged

\* line 135, left operand: not cached_data
TestCd ==
    \E t \in Threads :
       /\ threads[t].pc = "test_cd"
       /\ threads' = [threads EXCEPT
                        ![t].pc = IF Falsy(cached_data) THEN "fetch"
                                  ELSE "test_ts",
                        ![t].seen_cd = cd_by]
       /\ UNCHANGED <<cached_data, last_cache_time, cd_by, ts_by>>
       /\ ThreadSharedUnchanged

\* line 135, right operand: (current_time - last_cache_time) > CACHE_DURATION_SECONDS
TestTs ==
    \E t \in Threads :
       /\ threads[t].pc = "test_ts"
       /\ threads' = [threads EXCEPT
                        ![t].pc = IF threads[t].current_time - last_cache_time
                                       > CACHE_DURATION_SECONDS
                                  THEN "fetch" ELSE "ret",
                        ![t].seen_ts = ts_by]
       /\ UNCHANGED <<cached_data, last_cache_time, cd_by, ts_by>>
       /\ ThreadSharedUnchanged

\* line 137, right side: get_data_from_providers() returns
FetchOk ==
    \E t \in Threads :
       /\ threads[t].pc = "fetch"
       /\ \E r \in ConcResults :
             /\ r.status = "ok"
             /\ threads' = [threads EXCEPT ![t].pc = "write_cd",
                                           ![t].result = r.list]
       /\ UNCHANGED <<cached_data, last_cache_time, cd_by, ts_by>>
       /\ ThreadSharedUnchanged

\* line 137, right side: get_data_from_providers() raises
FetchRaise ==
    \E t \in Threads :
       /\ threads[t].pc = "fetch"
       /\ \E r \in ConcResults : r.status = "error"
       /\ threads' = [threads EXCEPT
                        ![t].pc = "done",
                        ![t].returned = [status |-> "error", body |-> <<>>]]
       /\ UNCHANGED <<cached_data, last_cache_time, cd_by, ts_by>>
       /\ ThreadSharedUnchanged

\* line 137, left side: cached_data = ...
WriteCd ==
    \E t \in Threads :
       /\ threads[t].pc = "write_cd"
       /\ cached_data' = [isNone |-> FALSE, val |-> threads[t].result]
       /\ cd_by' = t
       /\ threads' = [threads EXCEPT ![t].pc = "write_ts"]
       /\ UNCHANGED <<last_cache_time, ts_by>>
       /\ ThreadSharedUnchanged

\* line 138: last_cache_time = current_time
WriteTs ==
    \E t \in Threads :
       /\ threads[t].pc = "write_ts"
       /\ last_cache_time' = threads[t].current_time
       /\ ts_by' = t
       /\ threads' = [threads EXCEPT ![t].pc = "ret"]
       /\ UNCHANGED <<cached_data, cd_by>>
       /\ ThreadSharedUnchanged

\* line 142: return cached_data
Return ==
    \E t \in Threads :
       /\ threads[t].pc = "ret"
       /\ threads' = [threads EXCEPT
                        ![t].pc = "done",
                        ![t].returned = [status |-> "ok",
                                         body |-> cached_data.val]]
       /\ UNCHANGED <<cached_data, last_cache_time, cd_by, ts_by>>
       /\ ThreadSharedUnchanged

NextConc ==
    \/ Start
    \/ TestCd
    \/ TestTs
    \/ FetchOk
    \/ FetchRaise
    \/ WriteCd
    \/ WriteTs
    \/ Return
    \/ Tick

SpecConc == Init /\ [][NextConc]_vars

(***************************************************************************)
(* The score on its own: every quote of the bounded range, then the call.  *)
(***************************************************************************)
ChangeKeys == {"percentChange24h", "percentChange7d", "percentChange30d"}

Changes == (0 - MaxDrop)..MaxGain

Quotes == UNION { [K -> Changes] : K \in SUBSET ChangeKeys }

InitScore ==
    /\ cached_data = [isNone |-> TRUE, val |-> <<>>]
    /\ last_cache_time = 0
    /\ now = BootTime
    /\ last_op = "init"
    /\ response = [status |-> "none", body |-> <<>>]
    /\ invoked = <<>>
    /\ ret1 = NotCalled
    /\ ret2 = NotCalled
    /\ quote \in Quotes
    /\ score = -1
    /\ primary_fault = "none"
    /\ ConcInit

ComputeScore ==
    /\ last_op = "init"
    /\ score' = calculate_pain_score(quote)
    /\ last_op' = "score"
    /\ UNCHANGED <<cached_data, last_cache_time, now, response,
                   invoked, ret1, ret2, quote, primary_fault>>
    /\ UNCHANGED conc_vars

NextScore == ComputeScore

SpecScore == InitScore /\ [][NextScore]_vars

(***************************************************************************)
(* Properties                                                              *)
(***************************************************************************)
TTL == CACHE_DURATION_SECONDS

OkEmpty == [status |-> "ok", body |-> <<>>]

\* the batch the provider loop ended with in the last refresh
Winner == IF ret1.val # <<>> THEN ret1.val ELSE ret2.val

Bijections(n) ==
    { f \in [1..n -> 1..n] : \A i, j \in 1..n : f[i] = f[j] => i = j }

\* asset a was built from record r
BuiltFrom(a, r) ==
    a.name = r.name /\ a.symbol = r.symbol /\ a.logo_url = r.logo_url

\* list holds one asset for each record of batch, and nothing else
ArrangementOf(list, batch) ==
    /\ Len(list) = Len(batch)
    /\ \E f \in Bijections(Len(batch)) :
          \A i \in 1..Len(list) : BuiltFrom(list[i], batch[f[i]])

Malformed(r) ==
    r.name = NoneVal \/ r.name = <<>> \/ r.symbol = NoneVal \/ r.symbol = <<>>

WellFormed(batch) == SelectSeq(batch, LAMBDA r : ~Malformed(r))

\* C1: after a refresh that stored the empty list, a get() within 900 s of
\* the stored timestamp returns the empty list and invokes no provider.
C1_EmptyEntryIsServedFromCache ==
    [][ (last_op' = "get" /\ ~cached_data.isNone /\ cached_data.val = <<>>
         /\ now - last_cache_time <= TTL)
        => (invoked' = <<>> /\ response' = OkEmpty) ]_vars

\* C2: a get() while an entry exists whose age is at most 900 s returns the
\* stored list, invokes no provider and leaves list and timestamp unchanged.
C2_FreshEntryIsReturnedUnchanged ==
    [][ (last_op' = "get" /\ ~cached_data.isNone
         /\ now - last_cache_time <= TTL)
        => (/\ invoked' = <<>>
            /\ response' = [status |-> "ok", body |-> cached_data.val]
            /\ cached_data' = cached_data
            /\ last_cache_time' = last_cache_time) ]_vars

\* C3: a get() with no entry yet, or with an entry older than 900 s, runs one
\* refresh cycle (providers in priority order, each at most once), stores the
\* new list with timestamp = now of the call and returns that list.
C3_StaleGetRefreshesStoresAndReturns ==
    [][ (last_op' = "get"
         /\ (cached_data.isNone \/ now - last_cache_time > TTL))
        => (/\ invoked' \in {<<1>>, <<1, 2>>}
            /\ response'.status = "ok"
            /\ cached_data' = [isNone |-> FALSE, val |-> response'.body]
            /\ last_cache_time' = now) ]_vars

\* C4: when the primary returned no record and the secondary returned N > 0,
\* the result is N ranked assets, one per record of the secondary, and none
\* of them comes from the primary.
C4_FallbackUsesSecondaryOnly ==
    (ret1.called /\ ret1.val = <<>> /\ ret2.called /\ ret2.val # <<>>)
    => /\ response.status = "ok"
       /\ ArrangementOf(response.body, ret2.val)
       /\ \A i \in 1..Len(response.body) :
             /\ response.body[i].rank = i
             /\ response.body[i].logo_url[1] = "gecko"
       /\ cached_data = [isNone |-> FALSE, val |-> response.body]

C4_Witness ==
    /\ ret1.called /\ ret1.val = <<>>
    /\ ret2.called /\ Len(ret2.val) = 2 /\ ret2.val[1] # ret2.val[2]
    /\ response.status = "ok" /\ Len(response.body) = 2

\* C5: when the winning batch holds a record whose name or symbol is absent
\* or empty, get() succeeds and its list holds exactly the other records.
C5_MalformedRecordIsSkipped ==
    (invoked # <<>> /\ \E i \in 1..Len(Winner) : Malformed(Winner[i]))
    => /\ response.status = "ok"
       /\ ArrangementOf(response.body, WellFormed(Winner))

\* C6: a non-empty list produced by a refresh has rank i at position i,
\* scores that never increase along the list, and assets of equal score in
\* the order of the provider's records.
C6_RanksDenseSortedStable ==
    (invoked # <<>> /\ response.status = "ok" /\ response.body # <<>>)
    => LET body == response.body IN
       /\ \A i \in 1..Len(body) : body[i].rank = i
       /\ \A i \in 1..(Len(body) - 1) :
             body[i].pain_score >= body[i + 1].pain_score
       /\ Len(body) = Len(Winner)
       /\ \E f \in Bijections(Len(body)) :
             /\ \A i \in 1..Len(body) : BuiltFrom(body[i], Winner[f[i]])
             /\ \A i, j \in 1..Len(body) :
                   (i < j /\ body[i].pain_score = body[j].pain_score)
                   => f[i] < f[j]

C6_Witness ==
    /\ invoked # <<>> /\ response.status = "ok" /\ Len(response.body) = 2
    /\ response.body[1].pain_score = response.body[2].pain_score
    /\ response.body[1].pain_score > 0
    /\ response.body[1].name # response.body[2].name

\* C7: the primary is invoked first and the secondary only after the primary
\* yielded nothing; after a non-empty primary batch the secondary is not
\* invoked and every asset of the result was built from a primary record.
C7_PrimaryFirstWinnerTakesAll ==
    /\ invoked \in {<<>>, <<1>>, <<1, 2>>}
    /\ (ret1.called <=> invoked # <<>>)
    /\ (ret2.called <=> invoked = <<1, 2>>)
    /\ (ret2.called => ret1.val = <<>>)
    /\ (ret1.val # <<>>
        => /\ invoked = <<1>>
           /\ \A i \in 1..Len(response.body) :
                 /\ response.body[i].logo_url[1] = "cmc"
                 /\ \E k \in 1..Len(ret1.val) :
                       BuiltFrom(response.body[i], ret1.val[k]))

C7_Witness ==
    /\ invoked = <<1>> /\ Len(ret1.val) = 2
    /\ response.status = "ok" /\ Len(response.body) = 2

\* C8: when every provider yielded nothing or failed (the primary came back
\* empty or failed, and the secondary, where it was asked, came back empty),
\* get() returns the empty list as a normal result.
C8_AllEmptyReturnsEmptyList ==
    (last_op = "get" /\ ret1.called /\ ret1.val = <<>>
     /\ (ret2.called => ret2.val = <<>>))
    => response = OkEmpty

\* C9: for every quote, absent changes included, the score is an integer
\* from 0 to 100.
C9_ScoreInRange ==
    last_op = "score" => score \in 0..100

C9_Witness ==
    /\ last_op = "score"
    /\ "percentChange30d" \notin DOMAIN quote
    /\ "percentChange24h" \in DOMAIN quote
    /\ score = 100

\* the formula of the specification in exact arithmetic:
\* floor(2.5 * (0.50*pain24 + 0.30*pain7 + 0.20*pain30) + b1 + b2), at most 100
ReferenceScore(q) ==
    LET pain24 == Pain(DictGet(q, "percentChange24h", 0))
        pain7  == Pain(DictGet(q, "percentChange7d", 0))
        pain30 == Pain(DictGet(q, "percentChange30d", 0))
        b1     == IF pain24 > 10 THEN 15 ELSE 0
        b2     == IF pain24 > 20 THEN 10 ELSE 0
    IN  Min(100, ((25 * pain24 + 15 * pain7 + 10 * pain30) \div 20) + b1 + b2)

\* C10: the score equals the reference formula for every quote.
C10_ScoreEqualsReference ==
    last_op = "score" => score = ReferenceScore(quote)

\* the quote q with the change of period k one percent further down
OnePercentDeeper(q, k) ==
    [kk \in (DOMAIN q) \cup {k} |->
        IF kk = k THEN DictGet(q, k, 0) - 1 ELSE q[kk]]

\* C11: of two quotes that differ in one period only, the one with the
\* deeper decline in that period never has the smaller score.  Checked for
\* each quote against each of its neighbours one percent deeper, which
\* gives every pair of the range by chaining.
C11_ScoreMonotoneInEachDecline ==
    last_op = "score"
    => \A k \in ChangeKeys :
          calculate_pain_score(OnePercentDeeper(quote, k)) >= score

C11_Witness ==
    /\ last_op = "score"
    /\ DictGet(quote, "percentChange24h", 0) = -20
    /\ DictGet(quote, "percentChange7d", 0) = -3
    /\ calculate_pain_score(OnePercentDeeper(quote, "percentChange24h"))
          > score + 10

\* C12: a quote whose changes are all >= 0 or absent has score 0.
C12_NoDeclineNoPain ==
    (last_op = "score" /\ \A k \in DOMAIN quote : quote[k] >= 0)
    => score = 0

C12_Witness ==
    /\ last_op = "score"
    /\ "percentChange24h" \in DOMAIN quote /\ quote["percentChange24h"] = 2
    /\ "percentChange7d" \notin DOMAIN quote
    /\ "percentChange30d" \in DOMAIN quote /\ quote["percentChange30d"] = 0
    /\ score = 0

UpperCase == <<"A", "B", "C", "D", "E", "F", "G", "H", "I", "J", "K", "L", "M",
               "N", "O", "P", "Q", "R", "S", "T", "U", "V", "W", "X", "Y", "Z">>

LowerCase == <<"a", "b", "c", "d", "e", "f", "g", "h", "i", "j", "k", "l", "m",
               "n", "o", "p", "q", "r", "s", "t", "u", "v", "w", "x", "y", "z">>

\* what one character of a name or symbol becomes in the id
IdChar(c, inName) ==
    IF inName /\ c = " " THEN "-"
    ELSE IF \E n \in 1..26 : UpperCase[n] = c
         THEN LowerCase[CHOOSE n \in 1..26 : UpperCase[n] = c]
         ELSE c

BitcoinCash == <<"B", "i", "t", "c", "o", "i", "n", " ", "C", "a", "s", "h">>

BitcoinCashId ==
    <<"b", "i", "t", "c", "o", "i", "n", "-", "c", "a", "s", "h", "-",
      "b", "c", "h">>

\* C13: the id of an asset is its name, lowercased and with "-" for each
\* space, then "-", then its symbol lowercased, nothing else changed; a
\* "Bitcoin Cash" with symbol "bch" has the id "bitcoin-cash-bch".
C13_IdIsSlugOfNameAndSymbol ==
    \A i \in 1..Len(response.body) :
       LET a == response.body[i]
           n == Len(a.name)
       IN  /\ Len(a.id) = n + 1 + Len(a.symbol)
           /\ \A j \in 1..n : a.id[j] = IdChar(a.name[j], TRUE)
           /\ a.id[n + 1] = "-"
           /\ \A j \in 1..Len(a.symbol) :
                 a.id[n + 1 + j] = IdChar(a.symbol[j], FALSE)
           /\ (a.name = BitcoinCash /\ a.symbol = <<"b", "c", "h">>
               => a.id = BitcoinCashId)

C13_Witness ==
    /\ Len(response.body) = 2
    /\ response.body[2].name = BitcoinCash
    /\ response.body[2].symbol = <<"b", "c", "h">>
    /\ response.body[2].id = BitcoinCashId
    /\ response.body[1].id = <<"d", "d", "-", "d">>

\* C15: an asset built from a record of the secondary carries the record's
\* price, and the record's one change figure both as its displayed
\* percentage and as the 24h change its score is computed from.
C15_SecondaryPriceAndChangeAreKept ==
    (ret1.called /\ ret1.val = <<>> /\ ret2.called /\ ret2.val # <<>>
     /\ response.status = "ok" /\ Len(response.body) = Len(ret2.val))
    => \E f \in Bijections(Len(ret2.val)) :
          \A i \in 1..Len(response.body) :
             LET a == response.body[i]
                 r == ret2.val[f[i]]
             IN  /\ BuiltFrom(a, r)
                 /\ a.price = r.price
                 /\ a.percent_from_ath = r.percent_from_ath
                 /\ a.pain_score = calculate_pain_score(
                        [k \in {"percentChange24h"} |-> r.percent_from_ath])

\* C16: when the primary fails (failed request or unreadable payload), the
\* refresh goes on to the secondary as after an empty answer, and get()
\* does not fail for it.
C16_PrimaryFailureFallsThrough ==
    primary_fault # "none"
    => /\ invoked = <<1, 2>>
       /\ ret2.called
       /\ response.status = "ok"
       /\ response.body = ProcessBatch(ret2.val).list

\* C18: a get() whose refresh aborts with an error leaves the stored list
\* and the stored timestamp as they were.
C18_AbortedRefreshLeavesCache ==
    [][ (last_op' = "get" /\ response'.status = "error")
        => (cached_data' = cached_data
            /\ last_cache_time' = last_cache_time) ]_vars

C18_Witness ==
    /\ last_op = "get"
    /\ response.status = "error"
    /\ ~cached_data.isNone /\ cached_data.val # <<>>
    /\ now - last_cache_time > TTL

\* C14: the list and the timestamp are replaced together: a get() that
\* reads both in its staleness test reads a pair written by one and the
\* same refresh (or the pair from before any refresh).
C14_ListAndStampReadAsOnePair ==
    \A t \in Threads :
       threads[t].seen_ts # -1 => threads[t].seen_cd = threads[t].seen_ts

\* C17: the stored timestamp never decreases, whichever of two calls that
\* both saw a stale cache finishes first.
C17_StampNeverDecreases ==
    [][last_cache_time' >= last_cache_time]_vars

====
